---- MODULE Spec2Model ----
(***************************************************************************)
(* Model of scilight (src/scilight/__init__.py): the placeholder resolver  *)
(* Task._replace_placeholders and the execute lifecycle of ShellTask and   *)
(* FuncTask over a filesystem.                                             *)
(*                                                                         *)
(* A Python str is a sequence of one-character strings, so that suffixing, *)
(* slicing and textual replacement are computed as the code computes them. *)
(* A Python dict is a sequence of [k, v] records in insertion order.       *)
(***************************************************************************)
EXTENDS Integers, Sequences, FiniteSets, TLC

VARIABLES
    fs,      \* the files on disk: path -> [w, st], the content's origin
    dirs,    \* the directories on disk
    tasks,   \* the task objects of the caller: id -> task record or NoTask
    cur,     \* the task whose execute is in progress, or "none"
    pc,      \* position of the running execute
    idx,     \* loop position in _move_tempfiles_to_final_path / _write_audit_files
    result,  \* how the last execute call ended
    retcode, \* exit status seen by _execute_shell_command in this call
    ran,     \* the command line handed to the subprocess in this call
    tmpl,    \* the arguments of the last ShellTask(...) call of the resolver runs
    ret      \* what _replace_placeholders returned for its command

vars == <<fs, dirs, tasks, cur, pc, idx, result, retcode, ran, tmpl, ret>>

----------------------------------------------------------------------------
(* Strings *)

TMP == <<".", "t", "m", "p">>
AUEXT == <<".", "a", "u", ".", "j", "s", "o", "n">>
BASENAME == <<"b", "a", "s", "e", "n", "a", "m", "e">>

\* index of the first character at or after i that is in C, 0 when none
FirstIn(s, i, C) ==
    LET J == {j \in i..Len(s) : s[j] \in C}
    IN  IF J = {} THEN 0 ELSE CHOOSE j \in J : \A k \in J : j <= k

\* index of the last character that is in C, 0 when none
LastIn(s, C) ==
    LET J == {j \in 1..Len(s) : s[j] \in C}
    IN  IF J = {} THEN 0 ELSE CHOOSE j \in J : \A k \in J : j >= k

StartsWithAt(s, i, t) ==
    /\ i + Len(t) - 1 <= Len(s)
    /\ \A k \in 1..Len(t) : s[i + k - 1] = t[k]

EndsWith(s, t) == Len(s) >= Len(t) /\ StartsWithAt(s, Len(s) - Len(t) + 1, t)

\* str.replace(old, new) from position i on: every non-overlapping
\* occurrence, left to right (old is never empty here)
RECURSIVE ReplaceFrom(_, _, _, _)
ReplaceFrom(s, i, old, new) ==
    LET J == {j \in i..(Len(s) - Len(old) + 1) : StartsWithAt(s, j, old)}
        first == CHOOSE j \in J : \A k \in J : j <= k
    IN  IF J = {} THEN SubSeq(s, i, Len(s))
        ELSE SubSeq(s, i, first - 1) \o new \o ReplaceFrom(s, first + Len(old), old, new)

Replace(s, old, new) == ReplaceFrom(s, 1, old, new)

\* str.strip("|")
RECURSIVE StripBars(_)
StripBars(s) ==
    IF s = <<>> THEN s
    ELSE IF Head(s) = "|" THEN StripBars(Tail(s))
    ELSE IF s[Len(s)] = "|" THEN StripBars(SubSeq(s, 1, Len(s) - 1))
    ELSE s

\* str.split(sep) for a one-character separator
RECURSIVE Split(_, _)
Split(s, sep) ==
    LET j == FirstIn(s, 1, {sep})
    IN  IF j = 0 THEN <<s>>
        ELSE <<SubSeq(s, 1, j - 1)>> \o Split(SubSeq(s, j + 1, Len(s)), sep)

\* os.path.basename
basename(path) == SubSeq(path, LastIn(path, {"/"}) + 1, Len(path))

\* str(pathlib.Path(path).parent) for a relative path; "." is <<".">>
parent(path) ==
    LET j == LastIn(path, {"/"})
    IN  IF j = 0 THEN <<".">> ELSE SubSeq(path, 1, j - 1)

----------------------------------------------------------------------------
(* Dicts *)

Keys(d) == {d[n].k : n \in 1..Len(d)}
Values(d) == {d[n].v : n \in 1..Len(d)}
Has(d, k) == k \in Keys(d)
Lookup(d, k) == d[CHOOSE n \in 1..Len(d) : d[n].k = k].v
Put(d, k, v) ==
    IF Has(d, k)
    THEN [n \in 1..Len(d) |-> IF d[n].k = k THEN [k |-> k, v |-> v] ELSE d[n]]
    ELSE Append(d, [k |-> k, v |-> v])

----------------------------------------------------------------------------
(* Task._replace_placeholders *)

NoMatch == [found |-> FALSE, end |-> 0, name |-> <<>>, arg |-> <<>>]

\* re match of \[c\:([^:\]\|]*)(\|([^\]]+))?\] starting at position i
\* (c is "i" or "p"); arg is group 4, empty when the group did not take part
MatchModRef(s, i, c) ==
    IF ~StartsWithAt(s, i, <<"[", c, ":">>) THEN NoMatch
    ELSE LET j == FirstIn(s, i + 3, {":", "]", "|"}) IN
         IF j = 0 \/ s[j] = ":" THEN NoMatch
         ELSE IF s[j] = "]"
              THEN [found |-> TRUE, end |-> j, name |-> SubSeq(s, i + 3, j - 1),
                    arg |-> <<>>]
              ELSE LET k == FirstIn(s, j + 1, {"]"}) IN
                   IF k = 0 \/ k = j + 1 THEN NoMatch
                   ELSE [found |-> TRUE, end |-> k,
                         name |-> SubSeq(s, i + 3, j - 1),
                         arg |-> SubSeq(s, j + 1, k - 1)]

\* re match of \[o\:([^:\]]*)(:([^:\]]+))?\] starting at position i
MatchOutRef(s, i) ==
    IF ~StartsWithAt(s, i, <<"[", "o", ":">>) THEN NoMatch
    ELSE LET j == FirstIn(s, i + 3, {":", "]"}) IN
         IF j = 0 THEN NoMatch
         ELSE IF s[j] = "]"
              THEN [found |-> TRUE, end |-> j, name |-> SubSeq(s, i + 3, j - 1),
                    arg |-> <<>>]
              ELSE LET k == FirstIn(s, j + 1, {":", "]"}) IN
                   IF k = 0 \/ k = j + 1 \/ s[k] = ":" THEN NoMatch
                   ELSE [found |-> TRUE, end |-> k,
                         name |-> SubSeq(s, i + 3, j - 1),
                         arg |-> SubSeq(s, j + 1, k - 1)]

MatchAt(s, i, c) == IF c = "o" THEN MatchOutRef(s, i) ELSE MatchModRef(s, i, c)

\* re.findall: the non-overlapping matches from position i on, left to right;
\* each as [ph, name, arg] (groups 1, 2 and 4)
RECURSIVE FindAll(_, _, _)
FindAll(s, i, c) ==
    LET J == {j \in i..(Len(s) - 3) : s[j] = "[" /\ MatchAt(s, j, c).found}
        first == CHOOSE j \in J : \A k \in J : j <= k
        m == MatchAt(s, first, c)
    IN  IF J = {} THEN <<>>
        ELSE <<[ph |-> SubSeq(s, first, m.end), name |-> m.name, arg |-> m.arg]>>
             \o FindAll(s, m.end + 1, c)

\* re.match(r"s\/([^/]+)\/([^/]+)\/", mod): groups 1 and 2, or no match
MatchSubst(mod) ==
    LET j == FirstIn(mod, 3, {"/"})
        k == IF j = 0 THEN 0 ELSE FirstIn(mod, j + 1, {"/"})
    IN  IF Len(mod) >= 2 /\ mod[1] = "s" /\ mod[2] = "/"
           /\ j > 3 /\ k > j + 1
        THEN [found |-> TRUE, search |-> SubSeq(mod, 3, j - 1),
              replace |-> SubSeq(mod, j + 1, k - 1)]
        ELSE [found |-> FALSE, search |-> <<>>, replace |-> <<>>]

\* StripSuffix taking the characters away at the front
StripSuffix_FromFront(path, extlen) == SubSeq(path, extlen + 1, Len(path))

\* path[0:-extlen]
StripSuffix(path, extlen) ==
    IF extlen = 0 THEN <<>> ELSE SubSeq(path, 1, Len(path) - extlen)

\* one pass of the loop over mods for an input reference (lines 74-86);
\* ok is FALSE where the code raises (mod[0] of an empty mod, mod_parts None)
ApplyInputMod(path, mod) ==
    IF mod = <<>> THEN [ok |-> FALSE, v |-> path]
    ELSE IF mod[1] = "%"
         THEN [ok |-> TRUE, v |-> StripSuffix(path, Len(mod) - 1)]
    ELSE IF mod[1] = "s"
         THEN LET mp == MatchSubst(mod) IN
              IF mp.found
              THEN [ok |-> TRUE, v |-> Replace(path, mp.search, mp.replace)]
              ELSE [ok |-> FALSE, v |-> path]
    ELSE IF mod = BASENAME
         THEN [ok |-> TRUE, v |-> basename(path)]
    ELSE [ok |-> TRUE, v |-> path]

\* one pass of the loop over mods for a parameter reference (lines 100-106)
ApplyParamMod(value, mod) ==
    IF mod = <<>> THEN [ok |-> FALSE, v |-> value]
    ELSE IF mod[1] = "s"
         THEN LET mp == MatchSubst(mod) IN
              IF mp.found
              THEN [ok |-> TRUE, v |-> Replace(value, mp.search, mp.replace)]
              ELSE [ok |-> FALSE, v |-> value]
    ELSE [ok |-> TRUE, v |-> value]

ApplyMod(c, v, mod) == IF c = "i" THEN ApplyInputMod(v, mod) ELSE ApplyParamMod(v, mod)

RECURSIVE ApplyMods(_, _, _, _)
ApplyMods(c, v, mods, n) ==
    IF n > Len(mods) THEN [ok |-> TRUE, v |-> v]
    ELSE LET r == ApplyMod(c, v, mods[n]) IN
         IF r.ok THEN ApplyMods(c, r.v, mods, n + 1) ELSE r

\* the loop over the matches of the in-port pass (c = "i", lines 66-88) or of
\* the parameter pass (c = "p", lines 92-108) from match n on
RECURSIVE SubstRefs(_, _, _, _, _)
SubstRefs(c, shell, ms, n, env) ==
    IF n > Len(ms) THEN [ok |-> TRUE, shell |-> shell]
    ELSE IF ~Has(env, ms[n].name) THEN [ok |-> FALSE, shell |-> shell]
    ELSE LET r == IF ms[n].arg = <<>>
                  THEN [ok |-> TRUE, v |-> Lookup(env, ms[n].name)]
                  ELSE ApplyMods(c, Lookup(env, ms[n].name),
                                 Split(StripBars(ms[n].arg), "|"), 1)
         IN  IF r.ok
             THEN SubstRefs(c, Replace(shell, ms[n].ph, r.v), ms, n + 1, env)
             ELSE [ok |-> FALSE, shell |-> shell]

\* SubstOuts taking the path of an unbound port to be empty
RECURSIVE SubstOuts_UnboundAsEmpty(_, _, _, _, _)
SubstOuts_UnboundAsEmpty(shell, temp_shell, ms, n, outputs) ==
    IF n > Len(ms)
    THEN [ok |-> TRUE, shell |-> shell, temp_shell |-> temp_shell, outputs |-> outputs]
    ELSE LET path == IF ms[n].arg # <<>> THEN ms[n].arg
                     ELSE IF Has(outputs, ms[n].name) THEN Lookup(outputs, ms[n].name)
                     ELSE <<>>
             outs == IF ms[n].arg # <<>> THEN Put(outputs, ms[n].name, path) ELSE outputs
         IN  SubstOuts_UnboundAsEmpty(Replace(shell, ms[n].ph, path),
                                      Replace(temp_shell, ms[n].ph, path \o TMP),
                                      ms, n + 1, outs)

\* the loop over the matches of the out-port pass (lines 114-126) from match n on
RECURSIVE SubstOuts(_, _, _, _, _)
SubstOuts(shell, temp_shell, ms, n, outputs) ==
    IF n > Len(ms)
    THEN [ok |-> TRUE, shell |-> shell, temp_shell |-> temp_shell, outputs |-> outputs]
    ELSE IF ms[n].arg = <<>> /\ ~Has(outputs, ms[n].name)
    THEN [ok |-> FALSE, shell |-> shell, temp_shell |-> temp_shell, outputs |-> outputs]
    ELSE LET path == IF ms[n].arg # <<>> THEN ms[n].arg ELSE Lookup(outputs, ms[n].name)
             outs == IF ms[n].arg # <<>> THEN Put(outputs, ms[n].name, path) ELSE outputs
         IN  SubstOuts(Replace(shell, ms[n].ph, path),
                       Replace(temp_shell, ms[n].ph, path \o TMP),
                       ms, n + 1, outs)

\* _replace_placeholders(shell) on a task with these inputs, outputs and
\* params; hasOutputs is FALSE while __init__ has not yet set self.outputs.
\* ok is FALSE where the code raises; outputs is the output map it leaves.
replace_placeholders(shell, inputs, outputs, params, hasOutputs) ==
    LET fail == [ok |-> FALSE, shell |-> shell, temp_shell |-> shell, outputs |-> outputs]
        r1 == SubstRefs("i", shell, FindAll(shell, 1, "i"), 1, inputs)
        r2 == SubstRefs("p", r1.shell, FindAll(r1.shell, 1, "p"), 1, params)
        ms == FindAll(r2.shell, 1, "o")
    IN  IF ~r1.ok THEN fail
        ELSE IF ~r2.ok THEN fail
        ELSE IF ms # <<>> /\ ~hasOutputs THEN fail
        ELSE SubstOuts(r2.shell, r2.shell, ms, 1, outputs)

----------------------------------------------------------------------------
(* Construction *)

NoTask == [kind |-> "none"]
NoFiles == [p \in {} |-> 0]
NoTmpl == [tokens |-> <<>>, inputs |-> <<>>, outputs |-> <<>>, params |-> <<>>]
NoRet == [ok |-> FALSE, shell |-> <<>>, temp_shell |-> <<>>]

\* the loop of lines 29-31 from entry n on; self.outputs does not exist yet
RECURSIVE ResolveInputs(_, _, _, _)
ResolveInputs(inputs, n, acc, params) ==
    IF n > Len(inputs) THEN [ok |-> TRUE, inputs |-> acc]
    ELSE LET r == replace_placeholders(inputs[n].v, acc, <<>>, params, FALSE) IN
         IF r.ok THEN ResolveInputs(inputs, n + 1, Put(acc, inputs[n].k, r.shell), params)
         ELSE [ok |-> FALSE, inputs |-> acc]

\* the loop of lines 34-36 from entry n on
RECURSIVE ResolveOutputs(_, _, _, _, _)
ResolveOutputs(outputs, n, acc, inputs, params) ==
    IF n > Len(outputs) THEN [ok |-> TRUE, outputs |-> acc]
    ELSE LET r == replace_placeholders(outputs[n].v, inputs, acc, params, TRUE) IN
         IF r.ok
         THEN ResolveOutputs(outputs, n + 1, Put(r.outputs, outputs[n].k, r.shell),
                             inputs, params)
         ELSE [ok |-> FALSE, outputs |-> acc]

\* Task.__init__
TaskInit(inputs, outputs, params, options) ==
    LET ri == ResolveInputs(inputs, 1, <<>>, params)
        ro == ResolveOutputs(outputs, 1, <<>>, ri.inputs, params)
    IN  [ok |-> ri.ok /\ ro.ok,
         inputs |-> ri.inputs,
         outputs |-> ro.outputs,
         params |-> params,
         tempfiles |-> IF Has(options, "tempfiles")
                       THEN Lookup(options, "tempfiles") ELSE TRUE]

\* FuncTask.__init__; declared remembers the output map construction left
FuncTaskInit(inputs, outputs, params, options) ==
    LET t == TaskInit(inputs, outputs, params, options)
    IN  [ok |-> t.ok, kind |-> "func", inputs |-> t.inputs, outputs |-> t.outputs,
         params |-> t.params, tempfiles |-> t.tempfiles,
         command |-> <<>>, temp_command |-> <<>>, declared |-> t.outputs]

\* ShellTask.__init__
ShellTaskInit(command, inputs, outputs, params, options) ==
    LET t == TaskInit(inputs, outputs, params, options)
        r == replace_placeholders(command, t.inputs, t.outputs, t.params, TRUE)
    IN  [ok |-> t.ok /\ r.ok, kind |-> "shell", inputs |-> t.inputs,
         outputs |-> r.outputs, params |-> t.params, tempfiles |-> t.tempfiles,
         command |-> r.shell, temp_command |-> r.temp_shell, declared |-> r.outputs]

----------------------------------------------------------------------------
(* The filesystem *)

\* os.path.exists
exists(files, ds, path) == path \in DOMAIN files \/ path \in ds

\* the directories os.makedirs(dir) makes exist: dir and its ancestors
RECURSIVE makedirs(_)
makedirs(dir) ==
    IF LastIn(dir, {"/"}) = 0 THEN {dir} ELSE {dir} \cup makedirs(parent(dir))

\* open(path, "w") and write: the content is tagged with the path it was
\* written to and with the standing of the work that wrote it
WriteFile(files, path, st) ==
    [q \in DOMAIN files \cup {path} |->
        IF q = path THEN [w |-> path, st |-> st] ELSE files[q]]

\* shutil.move(src, dst) of an existing file
move(files, src, dst) ==
    [q \in (DOMAIN files \ {src}) \cup {dst} |->
        IF q = dst THEN files[src] ELSE files[q]]

RemoveFile(files, path) == [q \in DOMAIN files \ {path} |-> files[q]]

\* the work that was running has ended: what it wrote is now the content of
\* finished work (st = "ok") or of failed or interrupted work (st = "bad")
Settle(files, st) ==
    [q \in DOMAIN files |->
        IF files[q].st = "pending" THEN [w |-> files[q].w, st |-> st] ELSE files[q]]

----------------------------------------------------------------------------
(* Task._outputs_exist *)

\* the loop of lines 46-55 from entry n on: "raise", "true" or "false"
RECURSIVE outputs_exist(_, _, _, _)
outputs_exist(outputs, n, files, ds) ==
    IF n > Len(outputs) THEN "false"
    ELSE IF exists(files, ds, outputs[n].v \o TMP) THEN "raise"
    ELSE IF exists(files, ds, outputs[n].v) THEN "true"
    ELSE outputs_exist(outputs, n + 1, files, ds)

\* Task._ensure_output_folders_exist: the directories after the call
ensure_output_folders_exist(outputs, ds) ==
    ds \cup UNION {makedirs(parent(outputs[n].v)) : n \in 1..Len(outputs)}

\* StageOutputs leaving the paths as they are
StageOutputs_Unsuffixed(outputs) == outputs

\* lines 155-156: every entry of the output map gets the staging suffix
StageOutputs(outputs) ==
    [n \in 1..Len(outputs) |-> [k |-> outputs[n].k, v |-> outputs[n].v \o TMP]]

\* lines 166-167: path[:-4] for every entry of the output map
UnstageOutputs(outputs) ==
    [n \in 1..Len(outputs) |->
        [k |-> outputs[n].k, v |-> SubSeq(outputs[n].v, 1, Len(outputs[n].v) - 4)]]

\* CommandToRun ignoring the tempfiles option
CommandToRun_AlwaysStaged(task) == task.temp_command

\* lines 217-218: the command line _execute_shell_command runs
CommandToRun(task) == IF task.tempfiles THEN task.temp_command ELSE task.command

----------------------------------------------------------------------------------------------------------------------------------------
(* The callers' choices *)

\* the staging suffixes the outputs of a task object may carry when it is executed
MaxRestage == 1

TaskIds == {"t1", "t2"}
OutPaths == {<<"a">>, <<"d", "/", "b">>}
PortNames == <<(<<"x">>), (<<"y">>)>>

\* the output declarations of a task: one output, or two in either order
OutLists ==
    {<<(<<"a">>)>>,
     <<(<<"a">>), (<<"d", "/", "b">>)>>,
     <<(<<"d", "/", "b">>), (<<"a">>)>>}

\* outputs = {"x": l[1], "y": l[2], ...}
OutDict(l) == [n \in 1..Len(l) |-> [k |-> PortNames[n], v |-> l[n]]]

\* "w [o:x] [o:y]" when the ports are bound by the outputs argument and
\* "w [o:x:<path>] [o:y:<path>]" when they are bound inline
RECURSIVE OutRefs(_, _, _)
OutRefs(l, n, inline) ==
    IF n > Len(l) THEN <<>>
    ELSE <<" ", "[", "o", ":">> \o PortNames[n]
         \o (IF inline THEN <<":">> \o l[n] ELSE <<>>) \o <<"]">>
         \o OutRefs(l, n + 1, inline)

CommandFor(l, inline) == <<"w">> \o OutRefs(l, 1, inline)

OptionSets == {<<>>, <<[k |-> "tempfiles", v |-> FALSE]>>}

\* the task object a constructor call leaves
Object(t) ==
    [kind |-> t.kind, inputs |-> t.inputs, outputs |-> t.outputs, params |-> t.params,
     tempfiles |-> t.tempfiles, command |-> t.command,
     temp_command |-> t.temp_command, declared |-> t.declared]

\* the objects sl.ShellTask(command, outputs=..., options=...) constructs
ShellObjects ==
    {Object(t) : t \in
        {u \in {ShellTaskInit(CommandFor(l, inline), <<>>,
                              IF inline THEN <<>> ELSE OutDict(l), <<>>, o) :
                    l \in OutLists, inline \in BOOLEAN, o \in OptionSets} : u.ok}}

\* the objects sl.FuncTask(func, outputs=..., options=...) constructs
FuncObjects ==
    {Object(t) : t \in
        {u \in {FuncTaskInit(<<>>, OutDict(l), <<>>, o) :
                    l \in OutLists, o \in OptionSets} : u.ok}}

\* path followed by n staging suffixes
RECURSIVE Suffixed(_, _)
Suffixed(path, n) == IF n = 0 THEN path ELSE Suffixed(path, n - 1) \o TMP

\* the number of staging suffixes a path ends with
RECURSIVE Restaged(_)
Restaged(path) ==
    IF EndsWith(path, TMP) THEN 1 + Restaged(SubSeq(path, 1, Len(path) - 4)) ELSE 0

AllPaths == {Suffixed(p, n) : p \in OutPaths, n \in 0..(MaxRestage + 1)}

----------------------------------------------------------------------------
(* The execute lifecycle *)

Init ==
    /\ fs = NoFiles
    /\ dirs = {<<".">>}
    /\ tasks = [id \in TaskIds |-> NoTask]
    /\ cur = "none"
    /\ pc = "idle"
    /\ idx = 0
    /\ result = "none"
    /\ retcode = 0
    /\ ran = <<>>
    /\ tmpl = NoTmpl
    /\ ret = NoRet

\* the caller moves on: what is remembered of the last execute call is dropped
Forget ==
    /\ cur' = "none"
    /\ idx' = 0
    /\ result' = "none"
    /\ retcode' = 0
    /\ ran' = <<>>

\* task = sl.ShellTask(...) or task = sl.FuncTask(...)
Construct(id, object) ==
    /\ pc = "idle"
    /\ tasks' = [tasks EXCEPT ![id] = object]
    /\ Forget
    /\ UNCHANGED <<fs, dirs, pc, tmpl, ret>>

\* Execute making the output folders before the existence check
Execute_FoldersFirst(id) ==
    /\ pc = "idle"
    /\ tasks[id] # NoTask
    /\ \A path \in Values(tasks[id].outputs) : Restaged(path) <= MaxRestage
    /\ cur' = id
    /\ ran' = <<>>
    /\ retcode' = 0
    /\ idx' = 0
    /\ dirs' = ensure_output_folders_exist(tasks[id].outputs, dirs)
    /\ LET e == outputs_exist(tasks[id].outputs, 1, fs, dirs') IN
       /\ result' = CASE e = "raise" -> "stale"
                      [] e = "true" -> "skipped"
                      [] OTHER -> "running"
       /\ pc' = IF e = "false" THEN "folders" ELSE "idle"
    /\ UNCHANGED <<fs, tasks, tmpl, ret>>

\* execute() up to the return of _outputs_exist (lines 148-149, 188-189)
Execute(id) ==
    /\ pc = "idle"
    /\ tasks[id] # NoTask
    /\ \A path \in Values(tasks[id].outputs) : Restaged(path) <= MaxRestage
    /\ cur' = id
    /\ ran' = <<>>
    /\ retcode' = 0
    /\ idx' = 0
    /\ LET e == outputs_exist(tasks[id].outputs, 1, fs, dirs) IN
       /\ result' = CASE e = "raise" -> "stale"
                      [] e = "true" -> "skipped"
                      [] OTHER -> "running"
       /\ pc' = IF e = "false" THEN "folders" ELSE "idle"
    /\ UNCHANGED <<fs, dirs, tasks, tmpl, ret>>

\* self._ensure_output_folders_exist() (lines 151, 191)
EnsureFolders ==
    /\ pc = "folders"
    /\ dirs' = ensure_output_folders_exist(tasks[cur].outputs, dirs)
    /\ pc' = "start"
    /\ UNCHANGED <<fs, tasks, cur, idx, result, retcode, ran, tmpl, ret>>

\* the work starts: FuncTask stages its output map and calls func (lines
\* 153-162); ShellTask hands the command line to the shell (lines 194-228)
StartWork ==
    /\ pc = "start"
    /\ pc' = "work"
    /\ IF tasks[cur].kind = "func"
       THEN /\ tasks' = [tasks EXCEPT ![cur].outputs =
                            IF tasks[cur].tempfiles THEN StageOutputs(@) ELSE @]
            /\ ran' = ran
       ELSE /\ ran' = CommandToRun(tasks[cur])
            /\ tasks' = tasks
    /\ UNCHANGED <<fs, dirs, cur, idx, result, retcode, tmpl, ret>>

\* the paths the running work may write: the entries of the output map the
\* function sees, or the operands of the command line the shell was given
Targets ==
    IF tasks[cur].kind = "func" THEN Values(tasks[cur].outputs)
    ELSE LET words == Split(ran, " ") IN {words[n] : n \in 2..Len(words)}

\* the function or the subprocess writes one of its files
WorkWrite(path) ==
    /\ pc = "work"
    /\ path \in Targets
    /\ parent(path) \in dirs
    /\ path \in DOMAIN fs => fs[path].st # "pending"
    /\ fs' = WriteFile(fs, path, "pending")
    /\ UNCHANGED <<dirs, tasks, cur, pc, idx, result, retcode, ran, tmpl, ret>>

\* the subprocess exits with code rc: _execute_shell_command raises inside
\* its own try on rc # 0, catches it, prints and returns (lines 221-250);
\* execute goes on to lines 199-200
ShellExit(rc) ==
    /\ pc = "work"
    /\ tasks[cur].kind = "shell"
    /\ retcode' = rc
    /\ fs' = Settle(fs, IF rc = 0 THEN "ok" ELSE "bad")
    /\ pc' = IF tasks[cur].tempfiles THEN "move" ELSE "audit"
    /\ idx' = 1
    /\ UNCHANGED <<dirs, tasks, cur, result, ran, tmpl, ret>>

\* func returns: the output map is unstaged (lines 164-167)
FuncReturn ==
    /\ pc = "work"
    /\ tasks[cur].kind = "func"
    /\ fs' = Settle(fs, "ok")
    /\ IF tasks[cur].tempfiles
       THEN /\ tasks' = [tasks EXCEPT ![cur].outputs = UnstageOutputs(@)]
            /\ pc' = "move"
            /\ idx' = 1
            /\ result' = result
       ELSE /\ tasks' = tasks
            /\ pc' = "idle"
            /\ idx' = idx
            /\ result' = "ok"
    /\ UNCHANGED <<dirs, cur, retcode, ran, tmpl, ret>>

\* func raises: the exception leaves execute at line 162
FuncRaise ==
    /\ pc = "work"
    /\ tasks[cur].kind = "func"
    /\ fs' = Settle(fs, "bad")
    /\ pc' = "idle"
    /\ result' = "failed"
    /\ UNCHANGED <<dirs, tasks, cur, idx, retcode, ran, tmpl, ret>>

\* one pass of the loop of _move_tempfiles_to_final_path (lines 131-132), or
\* its end; shutil.move raises when the staged file is missing
MoveTempfile ==
    /\ pc = "move"
    /\ LET outputs == tasks[cur].outputs IN
       IF idx > Len(outputs)
       THEN /\ IF tasks[cur].kind = "shell"
               THEN pc' = "audit" /\ idx' = 1 /\ result' = result
               ELSE pc' = "idle" /\ idx' = idx /\ result' = "ok"
            /\ fs' = fs
       ELSE IF outputs[idx].v \o TMP \in DOMAIN fs
       THEN /\ fs' = move(fs, outputs[idx].v \o TMP, outputs[idx].v)
            /\ idx' = idx + 1
            /\ UNCHANGED <<pc, result>>
       ELSE /\ pc' = "idle"
            /\ result' = "failed"
            /\ UNCHANGED <<fs, idx>>
    /\ UNCHANGED <<dirs, tasks, cur, retcode, ran, tmpl, ret>>

\* one pass of the loop of _write_audit_files (lines 303-306), or its end
WriteAudit ==
    /\ pc = "audit"
    /\ LET outputs == tasks[cur].outputs IN
       IF idx > Len(outputs)
       THEN /\ pc' = "idle"
            /\ result' = "ok"
            /\ UNCHANGED <<fs, idx>>
       ELSE /\ fs' = WriteFile(fs, outputs[idx].v \o AUEXT, "audit")
            /\ idx' = idx + 1
            /\ UNCHANGED <<pc, result>>
    /\ UNCHANGED <<dirs, tasks, cur, retcode, ran, tmpl, ret>>

\* the process dies inside execute: the task objects are gone, the files
\* stay, and what the work was writing is the content of unfinished work
Crash ==
    /\ pc # "idle"
    /\ pc' = "idle"
    /\ result' = "crashed"
    /\ tasks' = [id \in TaskIds |-> NoTask]
    /\ fs' = Settle(fs, "bad")
    /\ UNCHANGED <<dirs, cur, idx, retcode, ran, tmpl, ret>>

\* the operator removes a leftover staged file
RemoveStaged(path) ==
    /\ pc = "idle"
    /\ path \in DOMAIN fs
    /\ EndsWith(path, TMP)
    /\ fs' = RemoveFile(fs, path)
    /\ Forget
    /\ UNCHANGED <<dirs, tasks, pc, tmpl, ret>>

\* the steps of a caller that holds the task objects ids and constructs its
\* tasks among objects
Step(ids, objects) ==
    \/ \E id \in ids, object \in objects : Construct(id, object)
    \/ \E id \in ids : Execute(id)
    \/ EnsureFolders
    \/ StartWork
    \/ \E path \in AllPaths : WorkWrite(path)
    \/ \E rc \in {0, 1} : ShellExit(rc)
    \/ FuncReturn
    \/ FuncRaise
    \/ MoveTempfile
    \/ WriteAudit
    \/ Crash
    \/ \E path \in AllPaths : RemoveStaged(path)

\* a caller that holds one task object at a time, with one or two outputs
Next == Step({"t1"}, ShellObjects \cup FuncObjects)

Spec == Init /\ [][Next]_vars

\* a caller that holds two task objects, each declaring the one output a
PoolObjects == {object \in ShellObjects \cup FuncObjects : Values(object.outputs) = {<<"a">>}}

NextPool == Step(TaskIds, PoolObjects)

SpecPool == Init /\ [][NextPool]_vars

\* a caller all of whose tasks leave staging enabled (the default)
StagedObjects == {object \in ShellObjects \cup FuncObjects : object.tempfiles}

NextStaged == Step({"t1"}, StagedObjects)

SpecStaged == Init /\ [][NextStaged]_vars

----------------------------------------------------------------------------
(* Resolver runs: ShellTask(command, inputs, outputs, params) over templates
   of the placeholder grammar, written as sequences of tokens *)

MaxTokens == 2

Lit(text) == [t |-> "lit", name |-> text, mods |-> <<>>, path |-> <<>>]
In(port, mods) == [t |-> "in", name |-> port, mods |-> mods, path |-> <<>>]
Par(name, mods) == [t |-> "par", name |-> name, mods |-> mods, path |-> <<>>]
Out2(port) == [t |-> "out2", name |-> port, mods |-> <<>>, path |-> <<>>]
Out3(port, path) == [t |-> "out3", name |-> port, mods |-> <<>>, path |-> path]

\* the text of a token without nested tokens
FlatText(tok) ==
    CASE tok.t = "lit" -> tok.name
      [] tok.t = "in" ->
            <<"[", "i", ":">> \o tok.name
            \o (IF tok.mods = <<>> THEN <<>> ELSE <<"|">> \o tok.mods) \o <<"]">>
      [] tok.t = "par" ->
            <<"[", "p", ":">> \o tok.name
            \o (IF tok.mods = <<>> THEN <<>> ELSE <<"|">> \o tok.mods) \o <<"]">>
      [] OTHER -> <<"[", "o", ":">> \o tok.name \o <<"]">>

RECURSIVE FlatTextOf(_, _)
FlatTextOf(tokens, n) ==
    IF n > Len(tokens) THEN <<>> ELSE FlatText(tokens[n]) \o FlatTextOf(tokens, n + 1)

Text(tok) ==
    IF tok.t = "out3"
    THEN <<"[", "o", ":">> \o tok.name \o <<":">> \o FlatTextOf(tok.path, 1) \o <<"]">>
    ELSE FlatText(tok)

\* the template string a token sequence stands for
RECURSIVE TextFrom(_, _)
TextFrom(tokens, n) ==
    IF n > Len(tokens) THEN <<>> ELSE Text(tokens[n]) \o TextFrom(tokens, n + 1)

TextOf(tokens) == TextFrom(tokens, 1)

GZPATH == <<"d", "/", "c", ".", "f", "a", ".", "g", "z">>
STRIPGZ == <<"%", ".", "g", "z">>
SUBST == <<"s", "/", "c", "/", "h", "i", "/">>
SUBSTV == <<"s", "/", "1", "/", "2", "/">>
\* a path with a character the out-port pattern excludes from a path
COLONPATH == <<"c", ":", "x">>

InTokens ==
    {In(<<"g">>, m) : m \in {<<>>, STRIPGZ,
                             STRIPGZ \o <<"|">> \o BASENAME,
                             BASENAME \o <<"|">> \o STRIPGZ,
                             STRIPGZ \o <<"|">> \o SUBST}}
    \cup {In(<<"k">>, <<>>)}

PathTemplates ==
    {<<Lit(<<"x", ".", "f", "a">>)>>}
    \cup {<<In(<<"g">>, m)>> : m \in {<<>>, STRIPGZ, BASENAME \o <<"|">> \o STRIPGZ}}
    \cup {<<In(<<"g">>, STRIPGZ \o <<"|">> \o SUBST), Lit(<<".", "t">>)>>}
    \cup {<<In(<<"k">>, <<>>)>>}

\* the templates of the outputs argument
OutputTemplates ==
    {<<Lit(<<"q">>)>>, <<In(<<"g">>, STRIPGZ \o <<"|">> \o SUBST), Lit(<<".", "t">>)>>}

TokenSet ==
    {Lit(<<"w", " ">>)}
    \cup InTokens
    \cup {In(<<"h">>, <<>>)}
    \cup {Par(<<"n">>, <<>>), Par(<<"n">>, SUBSTV), Par(<<"m">>, <<>>)}
    \cup {Out2(<<"f">>), Out2(<<"e">>)}
    \cup {Out3(port, path) : port \in {<<"f">>, <<"e">>}, path \in PathTemplates}

\* the inputs, outputs and params arguments; an outputs value is a template
Bindings ==
    {[tokens |-> <<>>,
      inputs |-> <<[k |-> <<"g">>, v |-> GZPATH], [k |-> <<"k">>, v |-> COLONPATH]>>,
      outputs |-> outs, params |-> <<[k |-> <<"n">>, v |-> <<"v", "1">>]>>] :
        outs \in {<<>>} \cup {<<[k |-> <<"f">>, v |-> path]>> : path \in OutputTemplates}}

\* the outputs argument as the caller writes it: port -> template string
OutputsArg(outputs) ==
    [n \in 1..Len(outputs) |-> [k |-> outputs[n].k, v |-> TextOf(outputs[n].v)]]

InitResolve ==
    /\ fs = NoFiles
    /\ dirs = {<<".">>}
    /\ tasks = [id \in TaskIds |-> NoTask]
    /\ cur = "none"
    /\ pc = "idle"
    /\ idx = 0
    /\ result = "none"
    /\ retcode = 0
    /\ ran = <<>>
    /\ tmpl \in Bindings
    /\ ret = NoRet

\* sl.ShellTask(command, inputs, outputs, params) for the arguments of binding
\* and the command template tokens
ShellTasks ==
    [binding \in Bindings |-> [tokens \in Seq(TokenSet) |->
        ShellTaskInit(TextOf(tokens), binding.inputs, OutputsArg(binding.outputs),
                      binding.params, <<>>)]]

\* task = sl.ShellTask(...) with the command template grown by one token, as
\* constructed tells; a constructor that raises leaves no object
Resolve(tok, constructed) ==
    /\ Len(tmpl.tokens) < MaxTokens
    /\ \E t \in {constructed[[tmpl EXCEPT !.tokens = <<>>]][Append(tmpl.tokens, tok)]} :
          /\ tmpl' = [tmpl EXCEPT !.tokens = Append(@, tok)]
          /\ tasks' = [tasks EXCEPT !["t1"] = IF t.ok THEN Object(t) ELSE NoTask]
          /\ ret' = [ok |-> t.ok, shell |-> t.command, temp_shell |-> t.temp_command]
    /\ UNCHANGED <<fs, dirs, cur, pc, idx, result, retcode, ran>>

\* the steps of a caller whose constructions are those of constructed
Resolving(constructed) == \E tok \in TokenSet : Resolve(tok, constructed)

NextResolve == Resolving(ShellTasks)

SpecResolve == InitResolve /\ [][NextResolve]_vars

----------------------------------------------------------------------------
(* Modifier runs: ShellTask("[i:g|<chain>]", inputs={"g": path}) over paths
   and chains of the modifiers %<suffix> and basename *)

MaxPathLen == 3
MaxSuffix == 3

\* the input paths: up to MaxPathLen characters, folders and extensions
ModPaths == UNION {[1..n -> {"a", ".", "/"}] : n \in 1..MaxPathLen}

\* a suffix text of n characters
Suffix(n) == [i \in 1..n |-> "z"]

\* the modifier %<suffix> for a suffix of n characters
Strip(n) == <<"%">> \o Suffix(n)

\* the chains: %<suffix>, %<suffix>|basename and basename|%<suffix>
ModChains ==
    {Strip(n) : n \in 0..MaxSuffix}
    \cup {Strip(n) \o <<"|">> \o BASENAME : n \in 0..MaxSuffix}
    \cup {BASENAME \o <<"|">> \o Strip(n) : n \in 0..MaxSuffix}

ModTokens == {In(<<"g">>, chain) : chain \in ModChains}

ModBindings ==
    {[tokens |-> <<>>, inputs |-> <<[k |-> <<"g">>, v |-> path]>>,
      outputs |-> <<>>, params |-> <<>>] : path \in ModPaths}

\* sl.ShellTask(command, inputs) for the arguments of binding and the command
\* template tokens
ModTasks ==
    [binding \in ModBindings |-> [tokens \in Seq(ModTokens) |->
        ShellTaskInit(TextOf(tokens), binding.inputs, OutputsArg(binding.outputs),
                      binding.params, <<>>)]]

InitMods ==
    /\ fs = NoFiles
    /\ dirs = {<<".">>}
    /\ tasks = [id \in TaskIds |-> NoTask]
    /\ cur = "none"
    /\ pc = "idle"
    /\ idx = 0
    /\ result = "none"
    /\ retcode = 0
    /\ ran = <<>>
    /\ tmpl \in ModBindings
    /\ ret = NoRet

\* task = sl.ShellTask("[i:g|<chain>]", inputs={"g": path}), as constructed
\* tells
Modify(tok, constructed) ==
    /\ tmpl.tokens = <<>>
    /\ \E t \in {constructed[tmpl][<<tok>>]} :
          /\ tmpl' = [tmpl EXCEPT !.tokens = <<tok>>]
          /\ tasks' = [tasks EXCEPT !["t1"] = IF t.ok THEN Object(t) ELSE NoTask]
          /\ ret' = [ok |-> t.ok, shell |-> t.command, temp_shell |-> t.temp_command]
    /\ UNCHANGED <<fs, dirs, cur, pc, idx, result, retcode, ran>>

\* the steps of a caller whose constructions are those of constructed
Modifying(constructed) == \E tok \in ModTokens : Modify(tok, constructed)

NextMods == Modifying(ModTasks)

SpecMods == InitMods /\ [][NextMods]_vars

----------------------------------------------------------------------------
(* Claims about the execute lifecycle *)

\* the object of the running or last execute call is still there
HasCur == cur # "none" /\ tasks[cur] # NoTask

\* the final paths the task object id was constructed with
Declared(id) == Values(tasks[id].declared)

\* the output map of id is as construction left it
Intact(id) == tasks[id].outputs = tasks[id].declared

\* C1: with staging enabled in every task, a final output path is absent or
\* holds what work that ran to successful completion wrote; content of failed
\* or unfinished work is never under a final path.
C1_FinalPathsHoldCompleteContent ==
    \A p \in OutPaths : p \in DOMAIN fs => fs[p].st = "ok"

\* C2: once the subprocess of a shell task has exited with a non-zero code,
\* execute has failed: it is not promoting or writing audit records, it has
\* not returned normally, and no audit record of a declared output is there.
C2_NonZeroExitFailsExecute ==
    (HasCur /\ retcode # 0) =>
        /\ pc = "idle"
        /\ result = "failed"
        /\ \A p \in Declared(cur) : p \o AUEXT \notin DOMAIN fs

\* C3: an execute that starts while <output>.tmp of any declared output
\* exists ends with the stale-partial-output error, whatever the position of
\* that output and whatever other final paths exist, and changes nothing.
C3_AnyStagedPathIsStaleError ==
    [][\A id \in TaskIds :
        (Execute(id) /\ Intact(id)
            /\ \E p \in Declared(id) : exists(fs, dirs, p \o TMP))
        => (result' = "stale" /\ pc' = "idle" /\ fs' = fs /\ dirs' = dirs)]_vars

\* C4: an execute that starts while the final path of any declared output
\* exists does not go on to the work, and when it returns as skipped the
\* files and directories are as before.
C4_ExistingOutputNeverRunsWork ==
    [][\A id \in TaskIds :
        (Execute(id) /\ \E p \in Declared(id) : exists(fs, dirs, p))
        => /\ pc' = "idle"
           /\ result' \in {"skipped", "stale"}
           /\ result' = "skipped" => (fs' = fs /\ dirs' = dirs)]_vars

\* C5: after an execute with staging enabled that ran the work and returned
\* without error, every declared final path holds what the work wrote to its
\* staged path, and no <output>.tmp of a declared output exists.
C5_SuccessLeavesFinalOutputsOnly ==
    (HasCur /\ pc = "idle" /\ result = "ok" /\ tasks[cur].tempfiles) =>
        \A p \in Declared(cur) :
            /\ p \in DOMAIN fs
            /\ fs[p].w = p \o TMP
            /\ p \o TMP \notin DOMAIN fs

\* C6: at the end of an execute with staging enabled that ran the work,
\* either it returned normally with every output promoted (and, for a shell
\* task, every audit record written), or it failed with no output promoted.
C6_CompletionIsAllOrNothing ==
    (HasCur /\ pc = "idle" /\ result \in {"ok", "failed"} /\ retcode = 0
        /\ tasks[cur].tempfiles /\ Intact(cur)) =>
        \/ /\ result = "ok"
           /\ \A p \in Declared(cur) :
                /\ p \in DOMAIN fs
                /\ tasks[cur].kind = "shell" => p \o AUEXT \in DOMAIN fs
        \/ /\ result = "failed"
           /\ \A p \in Declared(cur) : p \notin DOMAIN fs

\* C7: when an execute has failed and left <output>.tmp of a declared output
\* on disk, the next execute of the same task object ends with the
\* stale-partial-output error: it neither skips nor runs the work.
C7_LeftoverStagedFileKeepsFailing ==
    [][(HasCur /\ result = "failed" /\ Execute(cur)
            /\ \E p \in Declared(cur) : p \o TMP \in DOMAIN fs)
        => (result' = "stale" /\ pc' = "idle")]_vars

\* C8: with tempfiles = false the shell task runs the final-form command and
\* the function task sees unsuffixed paths in its output map, no staged path
\* is renamed, and after a normal return what the work wrote is at the final
\* paths and nothing is at the staged ones.
C8_NoStagingWritesFinalPaths ==
    (HasCur /\ ~tasks[cur].tempfiles) =>
        /\ pc # "move"
        /\ pc = "work" =>
             /\ tasks[cur].kind = "shell" => ran = tasks[cur].command
             /\ tasks[cur].outputs = tasks[cur].declared
             /\ Targets = Declared(cur)
        /\ (pc = "idle" /\ result = "ok") =>
             \A p \in Declared(cur) :
                /\ p \o TMP \notin DOMAIN fs
                /\ p \in DOMAIN fs => (fs[p].w = p /\ fs[p].st # "pending")

\* C8 witness: a shell task without staging has returned normally and its
\* output, written by the command, is at the final path.
C8_Witness ==
    /\ HasCur /\ ~tasks[cur].tempfiles /\ tasks[cur].kind = "shell"
    /\ pc = "idle" /\ result = "ok" /\ retcode = 0
    /\ \A p \in Declared(cur) : p \in DOMAIN fs /\ fs[p].w = p

----------------------------------------------------------------------------
(* Claims about the resolver *)

\* what an input or parameter reference, or a literal, stands for
ValueOf(tok) ==
    LET env == IF tok.t = "in" THEN tmpl.inputs ELSE tmpl.params
        c == IF tok.t = "in" THEN "i" ELSE "p"
    IN  IF tok.t = "lit" THEN tok.name
        ELSE IF tok.mods = <<>> THEN Lookup(env, tok.name)
        ELSE ApplyMods(c, Lookup(env, tok.name), Split(tok.mods, "|"), 1).v

\* the path a path template stands for
RECURSIVE PathOf(_, _)
PathOf(tokens, n) ==
    IF n > Len(tokens) THEN <<>> ELSE ValueOf(tokens[n]) \o PathOf(tokens, n + 1)

\* the output map the outputs argument stands for
DeclaredOutputs ==
    [n \in 1..Len(tmpl.outputs) |->
        [k |-> tmpl.outputs[n].k, v |-> PathOf(tmpl.outputs[n].v, 1)]]

\* the output map once the three-part references before token n have bound
\* their ports
RECURSIVE BoundBefore(_, _)
BoundBefore(tokens, n) ==
    IF n = 1 THEN DeclaredOutputs
    ELSE IF tokens[n - 1].t = "out3"
         THEN Put(BoundBefore(tokens, n - 1), tokens[n - 1].name,
                  PathOf(tokens[n - 1].path, 1))
         ELSE BoundBefore(tokens, n - 1)

\* the first place the placeholder of token n is written in the template
FirstSame(tokens, n) == CHOOSE m \in 1..n :
    tokens[m] = tokens[n] /\ \A k \in 1..(m - 1) : tokens[k] # tokens[n]

\* the path the output reference at token n stands for
OutPathAt(tokens, n) ==
    IF tokens[n].t = "out3" THEN PathOf(tokens[n].path, 1)
    ELSE Lookup(BoundBefore(tokens, n), tokens[n].name)

\* the template with every reference replaced by what it stands for, output
\* paths followed by suffix
RECURSIVE Expected(_, _, _)
Expected(tokens, n, suffix) ==
    IF n > Len(tokens) THEN <<>>
    ELSE (IF tokens[n].t \in {"out2", "out3"}
          THEN OutPathAt(tokens, FirstSame(tokens, n)) \o suffix
          ELSE ValueOf(tokens[n]))
         \o Expected(tokens, n + 1, suffix)

\* C9: resolution returns the template with every reference replaced by its
\* value, the final string carrying each output's path and the staged string
\* that path followed by ".tmp"; input paths and parameter values are the
\* same in both and carry no suffix, also when nested in an output reference.
C9_StagedDiffersBySuffixAtOutputs ==
    ret.ok =>
        /\ ret.shell = Expected(tmpl.tokens, 1, <<>>)
        /\ ret.temp_shell = Expected(tmpl.tokens, 1, TMP)

\* the ports a command template binds inline
InlinePorts(tokens) == {tokens[n].name : n \in {m \in 1..Len(tokens) : tokens[m].t = "out3"}}

\* s holds t somewhere
Contains(s, t) == \E i \in 1..(Len(s) + 1) : StartsWithAt(s, i, t)

\* C10: after a construction that succeeds the output map binds every
\* declared and every inline-bound port, and no other, to a path with no
\* placeholder left; a port of the outputs argument holds its template
\* resolved against the inputs; and a two-part reference to such a port in
\* the command is replaced by exactly that path.
C10_ConstructionBindsFinalPaths ==
    tasks["t1"] # NoTask =>
        LET outs == tasks["t1"].outputs
            tokens == tmpl.tokens
        IN  /\ Keys(outs) = Keys(tmpl.outputs) \cup InlinePorts(tokens)
            /\ \A n \in 1..Len(outs) :
                  /\ outs[n].v # <<>>
                  /\ \A i \in 1..Len(outs[n].v) : outs[n].v[i] \notin {"[", "]", "|"}
            /\ \A n \in 1..Len(tmpl.outputs) :
                  tmpl.outputs[n].k \notin InlinePorts(tokens) =>
                      /\ Lookup(outs, tmpl.outputs[n].k) = PathOf(tmpl.outputs[n].v, 1)
                      /\ Out2(tmpl.outputs[n].k) \in {tokens[m] : m \in 1..Len(tokens)} =>
                            /\ Contains(tasks["t1"].command, PathOf(tmpl.outputs[n].v, 1))
                            /\ FindAll(tasks["t1"].command, 1, "o") = <<>>
            /\ \A n \in 1..Len(tokens) :
                  tokens[n].t = "out3" =>
                      \E m \in 1..Len(tokens) :
                          /\ tokens[m].t = "out3" /\ tokens[m].name = tokens[n].name
                          /\ Lookup(outs, tokens[n].name) = PathOf(tokens[m].path, 1)

----------------------------------------------------------------------------
(* Claims about audit records, the order of the steps and function tasks *)

\* the audit records on disk
AuditPaths(files) == {q \in DOMAIN files : EndsWith(q, AUEXT)}

\* C11: an execute that ran the work and returns without error, of a shell
\* task or of a function task, leaves an audit record at <final path>.au.json
\* for every declared output; audit records are written only by the audit
\* step, and the step in which an execute ends skipped, stale or failed
\* writes none.
C11_OneAuditRecordPerOutput ==
    [][/\ (HasCur /\ pc # "idle" /\ pc' = "idle" /\ result' = "ok") =>
              \A p \in Declared(cur) : p \o AUEXT \in DOMAIN fs'
       /\ (\E q \in AuditPaths(fs') : q \notin DOMAIN fs \/ fs'[q] # fs[q]) =>
              pc = "audit"
       /\ result' \in {"skipped", "stale", "failed"} =>
              AuditPaths(fs') = AuditPaths(fs)]_vars

\* the paths whose content a step writes anew, with the standing st
Written(st) ==
    {q \in DOMAIN fs' : fs'[q].st = st /\ (q \notin DOMAIN fs \/ fs[q] # fs'[q])}

\* the paths a step renames a file to
Renamed ==
    {q \in DOMAIN fs' : \E src \in DOMAIN fs \ DOMAIN fs' :
        fs'[q] = fs[src] /\ (q \notin DOMAIN fs \/ fs[q] # fs'[q])}

\* C12: within one execute the steps come in the order existence check,
\* creation of the output folders, work, promotion, audit records: folders
\* are made only right after a check that found no output, the work writes
\* only after the folders step, renames happen only after the work has ended,
\* and audit records are written only after the work and the promotion.
C12_StepsRunInOrder ==
    [][/\ pc' # pc =>
              \/ pc' = "idle"
              \/ /\ pc = "idle" /\ pc' = "folders"
                 /\ outputs_exist(tasks[cur'].outputs, 1, fs, dirs) = "false"
              \/ pc = "folders" /\ pc' = "start"
              \/ pc = "start" /\ pc' = "work"
              \/ pc = "work" /\ pc' = "move" /\ tasks[cur].tempfiles
              \/ pc = "work" /\ pc' = "audit" /\ tasks[cur].kind = "shell"
                             /\ ~tasks[cur].tempfiles
              \/ pc = "move" /\ pc' = "audit" /\ tasks[cur].kind = "shell"
                             /\ idx > Len(tasks[cur].outputs)
       /\ dirs' # dirs => (pc = "folders" /\ pc' = "start")
       /\ Written("pending") # {} => pc = "work"
       /\ Renamed # {} => pc = "move"
       /\ Written("audit") # {} => pc = "audit"]_vars

\* C12 witness: a shell task with staging and an output in a folder has gone
\* through every step: the folder was made, the output promoted, the record
\* written.
C12_Witness ==
    /\ HasCur /\ tasks[cur].kind = "shell" /\ tasks[cur].tempfiles
    /\ pc = "idle" /\ result = "ok" /\ retcode = 0
    /\ <<"d">> \in dirs
    /\ \A p \in Declared(cur) :
          /\ p \in DOMAIN fs /\ fs[p].w = p \o TMP
          /\ p \o AUEXT \in DOMAIN fs
    /\ <<"d", "/", "b">> \in Declared(cur)

\* C13 as stated, for every function task: in an execute up to the point
\* where the procedure raises no declared final path comes into existence
\* and nothing is renamed, and when the procedure raises the execute ends
\* failed.
C13_FuncRaiseCreatesNoFinalPath ==
    [][(HasCur /\ tasks[cur].kind = "func" /\ pc \in {"folders", "start", "work"}) =>
          /\ \A p \in Declared(cur) : p \in DOMAIN fs' => p \in DOMAIN fs
          /\ Renamed = {}
          /\ FuncRaise => (pc' = "idle" /\ result' = "failed"
                            /\ DOMAIN fs' = DOMAIN fs)]_vars

\* C13 for function tasks with staging enabled: in an execute up to the point
\* where the procedure raises no declared final path comes into existence
\* and nothing is renamed, and when the procedure raises the execute ends
\* failed.
C13_StagedFuncRaiseCreatesNoFinalPath ==
    [][(HasCur /\ tasks[cur].kind = "func" /\ tasks[cur].tempfiles
            /\ pc \in {"folders", "start", "work"}) =>
          /\ \A p \in Declared(cur) : p \in DOMAIN fs' => p \in DOMAIN fs
          /\ Renamed = {}
          /\ FuncRaise => (pc' = "idle" /\ result' = "failed"
                            /\ DOMAIN fs' = DOMAIN fs)]_vars

\* C13 witness: the procedure of a function task with staging has written
\* its staged output and raised; the staged file is there, the final is not.
C13_Witness ==
    /\ HasCur /\ tasks[cur].kind = "func" /\ tasks[cur].tempfiles
    /\ pc = "idle" /\ result = "failed"
    /\ \A p \in Declared(cur) :
          /\ p \notin DOMAIN fs
          /\ p \o TMP \in DOMAIN fs /\ fs[p \o TMP].st = "bad"

\* C14: outside of an execute in progress the output map of a function task
\* holds the final paths it was constructed with, however the last execute
\* ended; during the procedure call of a task with staging every entry is
\* <final path>.tmp.
C14_FuncOutputsRestored ==
    \A id \in TaskIds :
        (tasks[id] # NoTask /\ tasks[id].kind = "func") =>
            /\ (pc = "idle" \/ cur # id) => Intact(id)
            /\ (pc = "work" /\ cur = id /\ tasks[id].tempfiles) =>
                  tasks[id].outputs = StageOutputs(tasks[id].declared)

----------------------------------------------------------------------------
(* Claims about the resolver, continued *)

\* C15: resolving the command template leaves the input map as it was, and
\* every port the outputs argument bound is still in the output map with the
\* path it was bound to, also when the template holds a three-part reference
\* to that port; only ports unbound before are added.
C15_ResolutionKeepsBoundPorts ==
    tasks["t1"] # NoTask =>
        /\ tasks["t1"].inputs = tmpl.inputs
        /\ \A n \in 1..Len(DeclaredOutputs) :
              /\ Has(tasks["t1"].outputs, DeclaredOutputs[n].k)
              /\ Lookup(tasks["t1"].outputs, DeclaredOutputs[n].k) = DeclaredOutputs[n].v
        /\ Keys(tasks["t1"].outputs) \ Keys(DeclaredOutputs) \subseteq InlinePorts(tmpl.tokens)

\* the input path and the modifier chain of a modifier run
ModPath == tmpl.inputs[1].v
ModChain == tmpl.tokens[1].mods

Min(m, n) == IF m < n THEN m ELSE n

\* C16: for every input path and every suffix text, the empty one and one
\* longer than the path included, [i:g|%<suffix>] resolves to the path
\* without its last min(len(suffix), len(path)) characters.
C16_StripRemovesSuffixLength ==
    \A n \in 0..MaxSuffix :
        (tmpl.tokens # <<>> /\ ModChain = Strip(n)) =>
            /\ ret.ok
            /\ ret.shell = SubSeq(ModPath, 1, Len(ModPath) - Min(n, Len(ModPath)))

\* C17: a chain of two modifiers resolves to the second applied to the result
\* of the first applied to the path, and for a path whose final component is
\* longer than the suffix the chain %<suffix>|basename resolves to what
\* basename|%<suffix> gives.
C17_ChainOrder ==
    \A n \in 0..MaxSuffix :
        LET sb == <<Strip(n), BASENAME>>
            bs == <<BASENAME, Strip(n)>>
        IN  /\ (tmpl.tokens # <<>> /\ ModChain = Strip(n) \o <<"|">> \o BASENAME) =>
                  /\ ret.ok
                  /\ ret.shell = basename(StripSuffix(ModPath, n))
                  /\ Len(basename(ModPath)) > n =>
                        ret.shell = ApplyMods("i", ModPath, bs, 1).v
            /\ (tmpl.tokens # <<>> /\ ModChain = BASENAME \o <<"|">> \o Strip(n)) =>
                  /\ ret.ok
                  /\ ret.shell = StripSuffix(basename(ModPath), n)
                  /\ Len(basename(ModPath)) > n =>
                        ret.shell = ApplyMods("i", ModPath, sb, 1).v

\* C17 witness: %<suffix>|basename has been resolved for a path in a folder
\* whose final component is longer than the non-empty suffix.
C17_Witness ==
    /\ tmpl.tokens # <<>> /\ ret.ok
    /\ \E n \in 1..MaxSuffix :
          /\ ModChain = Strip(n) \o <<"|">> \o BASENAME
          /\ Len(basename(ModPath)) > n
    /\ basename(ModPath) # ModPath
    /\ ret.shell # <<>>

\* the two orders give different results: the suffix is at least as long as
\* the final component of the path
C17_OrdersDiffer ==
    /\ tmpl.tokens # <<>> /\ ret.ok
    /\ \E n \in 1..MaxSuffix :
          /\ ModChain = Strip(n) \o <<"|">> \o BASENAME
          /\ Len(basename(ModPath)) <= n
          /\ ret.shell # ApplyMods("i", ModPath, <<BASENAME, Strip(n)>>, 1).v

\* token tok refers to an input port absent from the inputs or to a
\* parameter absent from the params
Unbound(tok) ==
    \/ tok.t = "in" /\ ~Has(tmpl.inputs, tok.name)
    \/ tok.t = "par" /\ ~Has(tmpl.params, tok.name)

\* the command template refers to an absent input port or parameter, also
\* inside the path of an output reference, or holds a two-part reference to
\* an output port that neither the outputs argument nor a three-part
\* reference before it has bound
RefersToAbsent(tokens) ==
    \E n \in 1..Len(tokens) :
        \/ Unbound(tokens[n])
        \/ \E m \in 1..Len(tokens[n].path) : Unbound(tokens[n].path[m])
        \/ /\ tokens[n].t = "out2"
           /\ ~Has(tmpl.outputs, tokens[n].name)
           /\ \A m \in 1..(n - 1) :
                 ~(tokens[m].t = "out3" /\ tokens[m].name = tokens[n].name)

\* C18: the construction of a shell task whose command template refers to an
\* absent input port, parameter or two-part output port fails: it returns no
\* strings and leaves no task object, and nothing was checked, created or
\* run on the way.
C18_AbsentReferenceFailsConstruction ==
    (tmpl.tokens # <<>> /\ RefersToAbsent(tmpl.tokens)) =>
        /\ ~ret.ok
        /\ tasks["t1"] = NoTask
        /\ fs = NoFiles /\ dirs = {<<".">>}
        /\ pc = "idle" /\ result = "none" /\ ran = <<>>

\* C18 witness: a command template that binds port f inline and then refers
\* to the absent port e in the two-part form has been given to the
\* constructor.
C18_Witness ==
    /\ Len(tmpl.tokens) = 2
    /\ tmpl.tokens[1].t = "out3" /\ tmpl.tokens[1].name = <<"f">>
    /\ tmpl.tokens[2] = Out2(<<"e">>)
    /\ ~Has(tmpl.outputs, <<"e">>)
    /\ ~ret.ok

====
